---- MODULE Spec2Model ----
(***************************************************************************)
(* Direct-messaging client (CodTech Chat-App): the managed backend's       *)
(* tables and stored procedures (SQL migrations), the useMessages store    *)
(* hook with its realtime subscription, the composer, and the user search. *)
(*                                                                         *)
(* Specifications:                                                         *)
(*   Spec         one useMessages instance of user Self against the        *)
(*                backend, other users acting through the same backend     *)
(*   SpecConv     concurrent get_or_create_conversation calls              *)
(*   SpecHistory  history loads over a long thread                         *)
(*   SpecSearch   the UserSearch component over a profile directory        *)
(***************************************************************************)
EXTENDS Integers, Sequences, FiniteSets, TLC

\* ------------------------------------------------------------------ bounds
MaxRows == 1          \* message rows the backend accepts in Spec
MaxFeed == 1          \* realtime events in flight to the instance
MaxInflight == 2      \* query responses in flight to the instance
MaxBackendRows == 2   \* message rows the backend accepts in SpecBackend
MaxConvCalls == 3     \* get_or_create_conversation invocations in SpecConv
MaxHistory == 102     \* longest thread drawn in SpecHistory
MaxViewInflight == 3  \* responses in flight towards the thread view
MaxTermLen == 1       \* longest search term typed in SpecSearch
MaxSearchInflight == 1 \* search responses in flight in SpecSearch

\* --------------------------------------------------------- identities etc.
Self == 1
Users == {1, 2, 3}
Peers == Users \ {Self}
NoPeer == 0                       \* recipientId undefined
Null == 0                         \* SQL NULL / JS null for ids and timestamps
Statuses == {"sending", "sent", "delivered", "seen"}

VARIABLES
  \* backend tables
  dbMessages,        \* messages table: set of rows
  conversations,     \* conversations table: set of rows
  now,               \* wall clock (server now() and client Date.now())
  \* realtime feed towards the modelled instance
  feed,
  \* useMessages instance of Self
  recipientId, messages, loading, inflight, seenTimer,
  \* composer and the sendMessage invocation in progress
  sending, send,
  messageSentTimer,  \* handleSubmit's setTimeout(onMessageSent, 100) is pending
  sendCalls,         \* sendMessage invocations of direct callers (SpecSends)
  \* get_or_create_conversation invocations (SpecConv)
  convCalls, convReturned, convCallCount,
  \* UserSearch component and its useUserSearch hook (SpecSearch)
  searchTerm, isOpen, selectedIndex, debounce,
  searchResults, searchLoading, searchError, searchInflight,
  lastCall,          \* the search call that was the hook's latest step, if any
  selectedUser,      \* ChatRoom.selectedUser, set through onSelectUser
  \* useMessages instance of MessageList, the thread view (SpecThread)
  viewMessages, viewLoading, viewInflight,
  \* useAuth instance of ChatRoom (SpecAuth): hook state, the effect's locals
  authMounted, authUser, authLoading, authError, getSessionPending, timeoutId,
  lastSeenInterval, activeIntervals, intervalCount, authEvent,
  ensureJobs, ensureResult,
  profileRow,        \* the profiles table holds the row of the identity
  \* ChatRoom: currentUserProfile, profileLoading, fetchCurrentUserProfile runs
  currentUserProfile, profileLoading, profileJobs

dbVars == <<dbMessages, conversations, now>>
storeVars == <<recipientId, messages, loading, inflight, seenTimer>>
sendVars == <<sending, send, messageSentTimer, sendCalls>>
convVars == <<convCalls, convReturned, convCallCount>>
searchVars == <<searchTerm, isOpen, selectedIndex, debounce, searchResults,
                searchLoading, searchError, searchInflight, lastCall, selectedUser>>
viewVars == <<viewMessages, viewLoading, viewInflight>>
hookVars == <<authMounted, authUser, authLoading, authError, getSessionPending, timeoutId,
              lastSeenInterval, activeIntervals, intervalCount, authEvent>>
ensureVars == <<ensureJobs, ensureResult>>
profileVars == <<currentUserProfile, profileLoading, profileJobs>>
authVars == <<hookVars, ensureVars, profileRow, profileVars>>
chatVars == <<dbVars, feed, storeVars, sendVars, convVars, searchVars, viewVars>>
vars == <<dbMessages, conversations, now, feed,
          recipientId, messages, loading, inflight, seenTimer,
          sending, send, messageSentTimer, sendCalls, convCalls, convReturned, convCallCount,
          searchTerm, isOpen, selectedIndex, debounce, searchResults,
          searchLoading, searchError, searchInflight, lastCall, selectedUser,
          viewMessages, viewLoading, viewInflight,
          authMounted, authUser, authLoading, authError, getSessionPending, timeoutId,
          lastSeenInterval, activeIntervals, intervalCount, authEvent,
          ensureJobs, ensureResult, profileRow,
          currentUserProfile, profileLoading, profileJobs>>

\* =================================================================
\* Backend: conversations table and get_or_create_conversation
\* =================================================================

\* IF user1 < user2 THEN (user1, user2) ELSE (user2, user1)
CanonicalPairUnordered(user1, user2) == [min_user |-> user1, max_user |-> user2]
CanonicalPair(user1, user2) ==
  IF user1 < user2 THEN [min_user |-> user1, max_user |-> user2]
                   ELSE [min_user |-> user2, max_user |-> user1]

\* SELECT id INTO conversation_id FROM conversations WHERE user1_id = min_user
\* AND user2_id = max_user   (NULL when no row)
SelectConversation(convs, pair) ==
  LET hit == {c \in convs : c.user1_id = pair.min_user /\ c.user2_id = pair.max_user}
  IN IF hit = {} THEN Null ELSE (CHOOSE c \in hit : TRUE).id

\* UNIQUE(user1_id, user2_id) on conversations
UniqueViolationOff(convs, pair) == FALSE
UniqueViolation(convs, pair) ==
  \E c \in convs : c.user1_id = pair.min_user /\ c.user2_id = pair.max_user

\* id uuid DEFAULT gen_random_uuid(): a value no row has
NewConversationId(convs) == Cardinality(convs) + 1

InsertConversation(convs, pair) ==
  convs \cup {[id |-> NewConversationId(convs),
               user1_id |-> pair.min_user, user2_id |-> pair.max_user]}

ConvCallers == {1, 2}
IdleCall == [pc |-> "idle", user1 |-> Null, user2 |-> Null, conversation_id |-> Null]

\* a session invokes get_or_create_conversation(user1, user2)
ConvCall(c, a, b) ==
  /\ convCalls[c].pc = "idle"
  /\ convCallCount < MaxConvCalls
  /\ a # b
  /\ convCalls' = [convCalls EXCEPT ![c] =
                     [pc |-> "select", user1 |-> a, user2 |-> b, conversation_id |-> Null]]
  /\ convCallCount' = convCallCount + 1
  /\ UNCHANGED <<dbVars, feed, storeVars, sendVars, convReturned, searchVars, viewVars, authVars>>

\* canonical ordering and the SELECT ... INTO
ConvSelect(c) ==
  /\ convCalls[c].pc = "select"
  /\ LET pair == CanonicalPair(convCalls[c].user1, convCalls[c].user2)
         found == SelectConversation(conversations, pair)
     IN convCalls' = [convCalls EXCEPT ![c].conversation_id = found,
                                       ![c].pc = IF found = Null THEN "insert" ELSE "return"]
  /\ UNCHANGED <<dbVars, feed, storeVars, sendVars, convReturned, convCallCount, searchVars, viewVars, authVars>>

\* IF conversation_id IS NULL THEN INSERT ... RETURNING id; the insert raises
\* unique_violation when a concurrent call has inserted the pair meanwhile
ConvInsert(c) ==
  /\ convCalls[c].pc = "insert"
  /\ LET pair == CanonicalPair(convCalls[c].user1, convCalls[c].user2)
     IN IF UniqueViolation(conversations, pair)
        THEN /\ convCalls' = [convCalls EXCEPT ![c].pc = "error"]
             /\ UNCHANGED conversations
        ELSE /\ conversations' = InsertConversation(conversations, pair)
             /\ convCalls' = [convCalls EXCEPT
                                ![c].conversation_id = NewConversationId(conversations),
                                ![c].pc = "return"]
  /\ UNCHANGED <<dbMessages, now, feed, storeVars, sendVars,
                 convReturned, convCallCount, searchVars, viewVars, authVars>>

\* RETURN conversation_id
ConvReturn(c) ==
  /\ convCalls[c].pc = "return"
  /\ convReturned' = convReturned \cup
       {[user1 |-> convCalls[c].user1, user2 |-> convCalls[c].user2,
         id |-> convCalls[c].conversation_id]}
  /\ convCalls' = [convCalls EXCEPT ![c] = IdleCall]
  /\ UNCHANGED <<dbVars, feed, storeVars, sendVars, convCallCount, searchVars, viewVars, authVars>>

\* the exception reaches the caller as an rpc error
ConvRaise(c) ==
  /\ convCalls[c].pc = "error"
  /\ convCalls' = [convCalls EXCEPT ![c] = IdleCall]
  /\ UNCHANGED <<dbVars, feed, storeVars, sendVars, convReturned, convCallCount, searchVars, viewVars, authVars>>

\* =================================================================
\* Backend: messages table, status procedures, auto-delivery trigger
\* =================================================================

\* delivered_at, seen_at: the code only tests them for NULL; a set milestone
\* is kept as the one value NotNull whatever the time
NotNull == 1
Stamp(t) == NotNull

StatusRank(st) ==
  CASE st = "sending" -> 0 [] st = "sent" -> 1 [] st = "delivered" -> 2 [] st = "seen" -> 3

\* id uuid DEFAULT gen_random_uuid(): a value no row has; ids carry no order
\* that follows creation time (later rows get smaller numbers)
UuidSpace == 1000
NewMessageId(tbl) == UuidSpace - Cardinality(tbl)

\* BEFORE INSERT trigger: `fresh` tells whether a profile row of the recipient
\* has last_seen within the last 5 minutes (profiles.last_seen is written by
\* every client's heartbeat and updateLastSeen and ages with the clock; it is
\* an input of the insert here)
AutoMarkDelivered(newRow, fresh, t) ==
  IF fresh
  THEN [newRow EXCEPT !.delivered_at = Stamp(t), !.status = "delivered"]
  ELSE newRow

\* the row the client's insert produces (status 'sent'), after the trigger
InsertedRow(tbl, fresh, t, content, user_id, recipient_id, conversation_id) ==
  AutoMarkDelivered([id |-> NewMessageId(tbl), content |-> content,
                     user_id |-> user_id, recipient_id |-> recipient_id,
                     conversation_id |-> conversation_id, created_at |-> t,
                     delivered_at |-> Null, seen_at |-> Null, status |-> "sent"],
                    fresh, t)

\* UPDATE messages SET seen_at = now(), status = 'seen'
\* WHERE user_id = sender_id AND recipient_id = viewer_id AND seen_at IS NULL
SeenTargets(tbl, sender_id, viewer_id) ==
  {m \in tbl : m.user_id = sender_id /\ m.recipient_id = viewer_id /\ m.seen_at = Null}

MarkMessagesAsSeen(tbl, sender_id, viewer_id, t) ==
  LET hit == SeenTargets(tbl, sender_id, viewer_id)
  IN (tbl \ hit) \cup {[m EXCEPT !.seen_at = Stamp(t), !.status = "seen"] : m \in hit}

\* UPDATE messages SET status = 'delivered', delivered_at = now()
\* WHERE recipient_id = p_recipient_id AND status = 'sent' AND delivered_at IS NULL
DeliveredTargetsNoStatusGuard(tbl, p_recipient_id) ==
  {m \in tbl : m.recipient_id = p_recipient_id /\ m.delivered_at = Null}
DeliveredTargets(tbl, p_recipient_id) ==
  {m \in tbl : m.recipient_id = p_recipient_id /\ m.status = "sent"
               /\ m.delivered_at = Null}

MarkMessagesAsDelivered(tbl, p_recipient_id, t) ==
  LET hit == DeliveredTargets(tbl, p_recipient_id)
  IN (tbl \ hit) \cup {[m EXCEPT !.delivered_at = Stamp(t), !.status = "delivered"] : m \in hit}

\* get_or_create_conversation run without a concurrent caller
GetOrCreateConversation(convs, user1, user2) ==
  LET pair == CanonicalPair(user1, user2)
      found == SelectConversation(convs, pair)
  IN IF found # Null
     THEN [convs |-> convs, id |-> found]
     ELSE [convs |-> InsertConversation(convs, pair), id |-> NewConversationId(convs)]

\* realtime change feed: one event per inserted or updated row, carrying the
\* row's id, sender and recipient; delivered only while a channel is subscribed
Event(type, m) ==
  [type |-> type, id |-> m.id, user_id |-> m.user_id, recipient_id |-> m.recipient_id]

RECURSIVE SetToSeqs(_)
SetToSeqs(S) ==
  IF S = {} THEN {<<>>}
  ELSE UNION {{<<x>> \o rest : rest \in SetToSeqs(S \ {x})} : x \in S}

Subscribed == recipientId # NoPeer

\* feeds that may result from the events of one statement
Emit(type, rows) ==
  IF Subscribed
  THEN {feed \o [i \in 1..Len(order) |-> Event(type, order[i])] : order \in SetToSeqs(rows)}
  ELSE {feed}

FeedRoom(n) == ~Subscribed \/ Len(feed) + n <= MaxFeed

\* the procedures as one statement each: table update and its events
ExecMarkSeen(sender_id, viewer_id) ==
  LET hit == SeenTargets(dbMessages, sender_id, viewer_id)
  IN /\ FeedRoom(Cardinality(hit))
     /\ dbMessages' = MarkMessagesAsSeen(dbMessages, sender_id, viewer_id, now)
     /\ feed' \in Emit("UPDATE", MarkMessagesAsSeen(hit, sender_id, viewer_id, now))

ExecMarkDelivered(p_recipient_id) ==
  LET hit == DeliveredTargets(dbMessages, p_recipient_id)
  IN /\ FeedRoom(Cardinality(hit))
     /\ dbMessages' = MarkMessagesAsDelivered(dbMessages, p_recipient_id, now)
     /\ feed' \in Emit("UPDATE", MarkMessagesAsDelivered(hit, p_recipient_id, now))

\* markMessagesAsSeen / markMessagesAsDelivered of the hook: the rpc is served
\* when issued, or fails and is only logged
RpcMarkSeen(ok, sender_id, viewer_id) ==
  IF ok THEN ExecMarkSeen(sender_id, viewer_id) ELSE UNCHANGED <<dbMessages, feed>>

RpcMarkDelivered(ok, p_recipient_id) ==
  IF ok THEN ExecMarkDelivered(p_recipient_id) ELSE UNCHANGED <<dbMessages, feed>>

\* a client of user u sends a message to v: the rpc, then the insert with
\* status 'sent' (lines 241-262 of sendMessage as the backend sees them)
ClientSend(u, v, fresh) ==
  /\ u # v
  /\ FeedRoom(1)
  /\ LET conv == GetOrCreateConversation(conversations, u, v)
         row == InsertedRow(dbMessages, fresh, now, 0, u, v, conv.id)
     IN /\ conversations' = conv.convs
        /\ dbMessages' = dbMessages \cup {row}
        /\ feed' \in Emit("INSERT", {row})
  /\ now' = now + 1
  /\ UNCHANGED <<storeVars, sendVars, convVars, searchVars, viewVars, authVars>>

\* a client of viewer_id opens the thread with sender_id (mark_messages_as_seen)
ClientMarkSeen(sender_id, viewer_id) ==
  /\ sender_id # viewer_id
  /\ SeenTargets(dbMessages, sender_id, viewer_id) # {}
  /\ ExecMarkSeen(sender_id, viewer_id)
  /\ UNCHANGED <<conversations, now, storeVars, sendVars, convVars, searchVars, viewVars, authVars>>

\* a client of p_recipient_id has sent a message (mark_messages_as_delivered)
ClientMarkDelivered(p_recipient_id) ==
  /\ DeliveredTargets(dbMessages, p_recipient_id) # {}
  /\ ExecMarkDelivered(p_recipient_id)
  /\ UNCHANGED <<conversations, now, storeVars, sendVars, convVars, searchVars, viewVars, authVars>>

\* the other users' clients, in Spec
PeerSend(u, v, fresh) ==
  /\ u \in Peers
  /\ Cardinality(dbMessages) < MaxRows
  /\ ClientSend(u, v, fresh)

PeerMarkSeen(sender_id, viewer_id) ==
  /\ viewer_id \in Peers
  /\ ClientMarkSeen(sender_id, viewer_id)

PeerMarkDelivered(p_recipient_id) ==
  /\ p_recipient_id \in Peers
  /\ ClientMarkDelivered(p_recipient_id)

\* every user's client, in SpecBackend
AnySend(u, v, fresh) ==
  /\ Cardinality(dbMessages) < MaxBackendRows
  /\ ClientSend(u, v, fresh)

\* =================================================================
\* useMessages: queries
\* =================================================================

HistoryLimit == 100

Between(m, a, b) ==
  \/ (m.user_id = a /\ m.recipient_id = b)
  \/ (m.user_id = b /\ m.recipient_id = a)

\* .order('created_at', { ascending: true }): every sequence of the rows that
\* ascends in created_at (rows of equal created_at in any order)
RECURSIVE OrderByCreatedAt(_, _)
OrderByCreatedAt(rows, times) ==
  IF times = {} THEN {<<>>}
  ELSE LET t == CHOOSE x \in times : \A y \in times : x <= y
       IN {h \o r : h \in SetToSeqs({m \in rows : m.created_at = t}),
                    r \in OrderByCreatedAt(rows, times \ {t})}

\* .limit(n)
Limit(seq, n) == SubSeq(seq, 1, IF Len(seq) < n THEN Len(seq) ELSE n)

\* fetchMessages' select: .or(and(user_id.eq.self, recipient_id.eq.peer),
\* and(user_id.eq.peer, recipient_id.eq.self)).order(created_at asc).limit(100)
\* The set of results the backend may return.
Reverse(seq) == [i \in 1..Len(seq) |-> seq[Len(seq) + 1 - i]]
FetchMessagesQueryDescending(tbl, self, peer) ==
  LET rows == {m \in tbl : Between(m, self, peer)}
  IN {Limit(Reverse(s), HistoryLimit) :
        s \in OrderByCreatedAt(rows, {m.created_at : m \in rows})}
FetchMessagesQuery(tbl, self, peer) ==
  LET rows == {m \in tbl : Between(m, self, peer)}
  IN {Limit(s, HistoryLimit) : s \in OrderByCreatedAt(rows, {m.created_at : m \in rows})}

\* isRelevantMessage of the INSERT and UPDATE handlers
IsRelevantMessageSelfOnly(ev, self, peer) ==
  ev.user_id = self \/ ev.recipient_id = self
IsRelevantMessage(ev, self, peer) ==
  \/ (ev.user_id = self /\ ev.recipient_id = peer)
  \/ (ev.user_id = peer /\ ev.recipient_id = self)

\* newMessages.sort((a, b) => time(a.created_at) - time(b.created_at)): stable
InsertSorted(sorted, x) ==
  LET k == Cardinality({i \in 1..Len(sorted) : sorted[i].created_at <= x.created_at})
  IN SubSeq(sorted, 1, k) \o <<x>> \o SubSeq(sorted, k + 1, Len(sorted))

RECURSIVE SortByCreatedAt(_)
SortByCreatedAt(s) ==
  IF s = <<>> THEN <<>>
  ELSE InsertSorted(SortByCreatedAt(SubSeq(s, 1, Len(s) - 1)), s[Len(s)])

\* setMessages(prev => prev.some(id) ? prev : sort([...prev, data]))
AppendIfAbsent(prev, data) ==
  IF \E i \in 1..Len(prev) : prev[i].id = data.id
  THEN prev
  ELSE SortByCreatedAt(Append(prev, data))

\* setMessages(prev => prev.map(msg => msg.id === data.id ? data : msg))
ReplaceByIdOrAppend(prev, id, data) ==
  IF \E i \in 1..Len(prev) : prev[i].id = id
  THEN [i \in 1..Len(prev) |-> IF prev[i].id = id THEN data ELSE prev[i]]
  ELSE Append(prev, data)
ReplaceById(prev, id, data) ==
  [i \in 1..Len(prev) |-> IF prev[i].id = id THEN data ELSE prev[i]]

\* setMessages(prev => prev.filter(msg => msg.id !== id))
RemoveById(prev, id) == SelectSeq(prev, LAMBDA m : m.id # id)

\* `temp-${Date.now()}`: temporary ids are the non-positive numbers
TempId(t) == 0 - t

\* =================================================================
\* useMessages: effect, handlers, loads
\* =================================================================

\* fetchMessages up to the await: setLoading(true) and the select, served when
\* issued; the response travels back in `inflight`
IssueFetch(peer, refresh) ==
  /\ Cardinality(inflight) < MaxInflight
  /\ loading' = TRUE
  /\ \E ok \in BOOLEAN :
       \E data \in (IF ok THEN FetchMessagesQuery(dbMessages, Self, peer) ELSE {<<>>}) :
         inflight' = inflight \cup
           {[kind |-> "fetch", ok |-> ok, data |-> data, peer |-> peer, refresh |-> refresh]}

\* the effect of useMessages for a newly selected recipient: fetchMessages(),
\* markMessagesAsSeen(), subscribe (the previous channel is removed)
SelectPeer(p, seenOk) ==
  /\ p \in Peers /\ p # recipientId
  /\ recipientId' = p
  /\ IssueFetch(p, FALSE)
  /\ RpcMarkSeen(seenOk, p, Self)
  /\ UNCHANGED <<conversations, now, messages, seenTimer, sendVars, convVars, searchVars, viewVars, authVars>>

\* refreshMessages: await fetchMessages(), then await markMessagesAsSeen()
RefreshMessages ==
  /\ recipientId # NoPeer
  /\ IssueFetch(recipientId, TRUE)
  /\ UNCHANGED <<dbVars, feed, recipientId, messages, seenTimer, sendVars, convVars, searchVars, viewVars, authVars>>

\* fetchMessages after the await: setMessages(data || []) or, on error,
\* setMessages([]); finally setLoading(false)
FetchMessagesResponse(r, seenOk) ==
  /\ r \in inflight /\ r.kind = "fetch"
  /\ messages' = IF r.ok THEN r.data ELSE <<>>
  /\ loading' = FALSE
  /\ inflight' = inflight \ {r}
  /\ RpcMarkSeen(r.refresh /\ seenOk, r.peer, Self)
  /\ UNCHANGED <<conversations, now, recipientId, seenTimer, sendVars, convVars, searchVars, viewVars, authVars>>

\* .eq('id', id).single(): the row as it is when the query is served
SingleRow(tbl, id) == {m \in tbl : m.id = id}

\* INSERT and UPDATE handlers up to the await: relevance filter, then the
\* re-fetch of the row (served when issued); a response holds the row as
\* the one-element sequence `data`
OnEvent ==
  /\ Subscribed
  /\ feed # <<>>
  /\ feed' = Tail(feed)
  /\ LET ev == Head(feed)
     IN IF IsRelevantMessage(ev, Self, recipientId)
        THEN /\ Cardinality(inflight) < MaxInflight
             /\ \E ok \in BOOLEAN :
                  IF ok
                  THEN \E data \in SingleRow(dbMessages, ev.id) :
                         inflight' = inflight \cup
                           {[kind |-> ev.type, ok |-> TRUE, data |-> <<data>>,
                             peer |-> recipientId, refresh |-> FALSE]}
                  ELSE UNCHANGED inflight
        ELSE UNCHANGED inflight
  /\ UNCHANGED <<dbVars, recipientId, messages, loading, seenTimer, sendVars, convVars, searchVars, viewVars, authVars>>

\* INSERT handler after the await: append unless present, sort; a message
\* authored by the peer schedules markMessagesAsSeen after 1000 ms
InsertRefetchResponse(r) ==
  /\ r \in inflight /\ r.kind = "INSERT"
  /\ messages' = AppendIfAbsent(messages, r.data[1])
  /\ seenTimer' = IF r.data[1].user_id = r.peer THEN seenTimer \cup {r.peer} ELSE seenTimer
  /\ inflight' = inflight \ {r}
  /\ UNCHANGED <<dbVars, feed, recipientId, loading, sendVars, convVars, searchVars, viewVars, authVars>>

\* UPDATE handler after the await: replace the entry of the same id
UpdateRefetchResponse(r) ==
  /\ r \in inflight /\ r.kind = "UPDATE"
  /\ messages' = ReplaceById(messages, r.data[1].id, r.data[1])
  /\ inflight' = inflight \ {r}
  /\ UNCHANGED <<dbVars, feed, recipientId, loading, seenTimer, sendVars, convVars, searchVars, viewVars, authVars>>

\* setTimeout(() => markMessagesAsSeen(), 1000) fires, with the recipient of
\* the handler that scheduled it
SeenTimerFires(p, seenOk) ==
  /\ p \in seenTimer
  /\ seenTimer' = seenTimer \ {p}
  /\ RpcMarkSeen(seenOk, p, Self)
  /\ UNCHANGED <<conversations, now, recipientId, messages, loading, inflight,
                 sendVars, convVars, searchVars, viewVars, authVars>>

\* =================================================================
\* MessageInput.handleSubmit and sendMessage
\* =================================================================

\* handleSubmit (guard on `sending`), sendMessage up to the optimistic append:
\* setMessages(prev => [...prev, optimisticMessage])
HandleSubmit ==
  /\ ~sending
  /\ recipientId # NoPeer
  /\ sending' = TRUE
  /\ LET optimisticMessage ==
           [id |-> TempId(now), content |-> now, user_id |-> Self,
            recipient_id |-> recipientId, conversation_id |-> Null,
            created_at |-> now, delivered_at |-> Null, seen_at |-> Null,
            status |-> "sending"]
     IN /\ messages' = Append(messages, optimisticMessage)
        /\ send' = [pc |-> "persist", optimistic |-> optimisticMessage, inserts |-> 0,
                    convError |-> FALSE, error |-> FALSE,
                    sentMessage |-> optimisticMessage]
  /\ UNCHANGED <<dbVars, feed, recipientId, loading, inflight, seenTimer, messageSentTimer, sendCalls,
                 convVars, searchVars, viewVars, authVars>>

\* the get_or_create_conversation rpc (its error is only logged) and the
\* insert of the row with status 'sent'. The insert either persists and
\* answers, persists and loses the answer, or does not persist.
\* send.inserts counts the insert requests of this invocation.
SendPersistWithinConvFatal(maxRows, convOk, persisted, answered, fresh) ==
  /\ send.pc = "persist"
  /\ persisted \/ ~answered
  /\ LET o == send.optimistic
         conv == GetOrCreateConversation(conversations, o.user_id, o.recipient_id)
         row == InsertedRow(dbMessages, fresh, now, o.content, o.user_id,
                            o.recipient_id, conv.id)
     IN IF ~convOk
        THEN /\ send' = [send EXCEPT !.pc = "response", !.error = TRUE, !.convError = TRUE]
             /\ UNCHANGED <<conversations, dbMessages, feed, now>>
        ELSE /\ conversations' = conv.convs
             /\ IF persisted
                THEN /\ Cardinality(dbMessages) < maxRows
                     /\ FeedRoom(1)
                     /\ dbMessages' = dbMessages \cup {row}
                     /\ feed' \in Emit("INSERT", {row})
                     /\ now' = now + 1
                ELSE UNCHANGED <<dbMessages, feed, now>>
             /\ send' = [send EXCEPT !.pc = "response", !.error = ~answered,
                                     !.inserts = @ + 1,
                                     !.sentMessage = IF answered THEN row ELSE o]
  /\ UNCHANGED <<storeVars, sending, messageSentTimer, sendCalls, convVars, searchVars, viewVars, authVars>>
SendPersistWithin(maxRows, convOk, persisted, answered, fresh) ==
  /\ send.pc = "persist"
  /\ persisted \/ ~answered
  /\ LET o == send.optimistic
         conv == GetOrCreateConversation(conversations, o.user_id, o.recipient_id)
         row == InsertedRow(dbMessages, fresh, now, o.content, o.user_id,
                            o.recipient_id, IF convOk THEN conv.id ELSE Null)
     IN /\ conversations' = IF convOk THEN conv.convs ELSE conversations
        /\ IF persisted
           THEN /\ Cardinality(dbMessages) < maxRows
                /\ FeedRoom(1)
                /\ dbMessages' = dbMessages \cup {row}
                /\ feed' \in Emit("INSERT", {row})
                /\ now' = now + 1
           ELSE UNCHANGED <<dbMessages, feed, now>>
        /\ send' = [send EXCEPT !.pc = "response", !.error = ~answered,
                                !.convError = ~convOk,
                                !.inserts = @ + 1,
                                !.sentMessage = IF answered THEN row ELSE o]
  /\ UNCHANGED <<storeVars, sending, messageSentTimer, sendCalls, convVars, searchVars, viewVars, authVars>>

SendPersist(convOk, persisted, answered, fresh) ==
  SendPersistWithin(MaxRows, convOk, persisted, answered, fresh)

\* sendMessage after the insert: on error remove the optimistic entry and
\* throw (handleSubmit logs, finally setSending(false)); otherwise replace it
SendResponseRetrying ==
  /\ send.pc = "response"
  /\ IF send.error
     THEN /\ send' = [send EXCEPT !.pc = "persist", !.error = FALSE]
          /\ UNCHANGED <<messages, sending>>
     ELSE /\ messages' = ReplaceById(messages, send.optimistic.id, send.sentMessage)
          /\ send' = [send EXCEPT !.pc = "effects"]
          /\ UNCHANGED sending
  /\ UNCHANGED <<dbVars, feed, recipientId, loading, inflight, seenTimer, messageSentTimer, sendCalls,
                 convVars, searchVars, viewVars, authVars>>
SendResponseKeepsPlaceholder ==
  /\ send.pc = "response"
  /\ IF send.error
     THEN /\ UNCHANGED messages
          /\ send' = [pc |-> "idle"]
          /\ sending' = FALSE
     ELSE /\ messages' = ReplaceById(messages, send.optimistic.id, send.sentMessage)
          /\ send' = [send EXCEPT !.pc = "effects"]
          /\ UNCHANGED sending
  /\ UNCHANGED <<dbVars, feed, recipientId, loading, inflight, seenTimer, messageSentTimer, sendCalls,
                 convVars, searchVars, viewVars, authVars>>
SendResponse ==
  /\ send.pc = "response"
  /\ IF send.error
     THEN /\ messages' = RemoveById(messages, send.optimistic.id)
          /\ send' = [pc |-> "idle"]
          /\ sending' = FALSE
     ELSE /\ messages' = ReplaceById(messages, send.optimistic.id, send.sentMessage)
          /\ send' = [send EXCEPT !.pc = "effects"]
          /\ UNCHANGED sending
  /\ UNCHANGED <<dbVars, feed, recipientId, loading, inflight, seenTimer, messageSentTimer, sendCalls,
                 convVars, searchVars, viewVars, authVars>>

\* await Promise.all([updateLastSeen(userId), markMessagesAsDelivered()]);
\* back in handleSubmit: setTimeout(() => onMessageSent(), 100), finally
\* setSending(false)
SendSideEffects(deliveredOk) ==
  /\ send.pc = "effects"
  /\ RpcMarkDelivered(deliveredOk, Self)
  /\ send' = [pc |-> "idle"]
  /\ sending' = FALSE
  /\ messageSentTimer' = TRUE
  /\ UNCHANGED <<conversations, now, storeVars, sendCalls, convVars, searchVars, viewVars,
                 authVars>>

\* ---- sendMessage called directly on one store instance by SendCallers
\* callers, whose invocations overlap; call c sends the text c
SendCallers == {1, 2}

\* sendMessage up to the optimistic append (after the profile select)
SendMessageOptimistic(c) ==
  /\ sendCalls[c].pc = "idle"
  /\ recipientId # NoPeer
  /\ LET optimisticMessage ==
           [id |-> TempId(now), content |-> c, user_id |-> Self,
            recipient_id |-> recipientId, conversation_id |-> Null,
            created_at |-> now, delivered_at |-> Null, seen_at |-> Null,
            status |-> "sending"]
     IN /\ messages' = Append(messages, optimisticMessage)
        /\ sendCalls' = [sendCalls EXCEPT ![c] =
                           [pc |-> "persist", optimistic |-> optimisticMessage,
                            error |-> FALSE, sentMessage |-> optimisticMessage]]
  /\ UNCHANGED <<dbVars, feed, recipientId, loading, inflight, seenTimer, sending, send,
                 messageSentTimer, convVars, searchVars, viewVars, authVars>>

\* the rpc and the insert of call c
SendMessagePersist(c, convOk, persisted, answered, fresh) ==
  /\ sendCalls[c].pc = "persist"
  /\ persisted \/ ~answered
  /\ LET o == sendCalls[c].optimistic
         conv == GetOrCreateConversation(conversations, o.user_id, o.recipient_id)
         row == InsertedRow(dbMessages, fresh, now, o.content, o.user_id,
                            o.recipient_id, IF convOk THEN conv.id ELSE Null)
     IN /\ conversations' = IF convOk THEN conv.convs ELSE conversations
        /\ IF persisted
           THEN /\ Cardinality(dbMessages) < MaxBackendRows
                /\ FeedRoom(1)
                /\ dbMessages' = dbMessages \cup {row}
                /\ feed' \in Emit("INSERT", {row})
                /\ now' = now + 1
           ELSE UNCHANGED <<dbMessages, feed, now>>
        /\ sendCalls' = [sendCalls EXCEPT ![c] =
                           [@ EXCEPT !.pc = "response", !.error = ~answered,
                                     !.sentMessage = IF answered THEN row ELSE o]]
  /\ UNCHANGED <<storeVars, sending, send, messageSentTimer, convVars, searchVars, viewVars,
                 authVars>>

\* call c after the insert: remove its optimistic entry and throw, or
\* replace it by id
SendMessageResponse(c) ==
  /\ sendCalls[c].pc = "response"
  /\ IF sendCalls[c].error
     THEN /\ messages' = RemoveById(messages, sendCalls[c].optimistic.id)
          /\ sendCalls' = [sendCalls EXCEPT ![c] = [pc |-> "idle"]]
     ELSE /\ messages' = ReplaceById(messages, sendCalls[c].optimistic.id,
                                     sendCalls[c].sentMessage)
          /\ sendCalls' = [sendCalls EXCEPT ![c] = [@ EXCEPT !.pc = "effects"]]
  /\ UNCHANGED <<dbVars, feed, recipientId, loading, inflight, seenTimer, sending, send,
                 messageSentTimer, convVars, searchVars, viewVars, authVars>>

\* call c: await Promise.all([updateLastSeen(userId), markMessagesAsDelivered()])
SendMessageSideEffects(c, deliveredOk) ==
  /\ sendCalls[c].pc = "effects"
  /\ RpcMarkDelivered(deliveredOk, Self)
  /\ sendCalls' = [sendCalls EXCEPT ![c] = [pc |-> "idle"]]
  /\ UNCHANGED <<conversations, now, storeVars, sending, send, messageSentTimer, convVars,
                 searchVars, viewVars, authVars>>

\* the timer of handleSubmit fires: handleMessageSent calls handleRefresh of
\* MessageList, which runs refreshMessages
MessageSentTimerFires ==
  /\ messageSentTimer
  /\ messageSentTimer' = FALSE
  /\ IssueFetch(recipientId, TRUE)
  /\ UNCHANGED <<dbVars, feed, recipientId, messages, seenTimer, sending, send, sendCalls,
                 convVars, searchVars, viewVars, authVars>>

\* =================================================================
\* useUserSearch and UserSearch
\* =================================================================
\* Strings are sequences of one-character strings.

TermChars == {"a", "A", "_", "@", " "}
HandleChars == {"a", "A", "b", "_"}

SearchTerms == UNION {[1..n -> TermChars] : n \in 0..MaxTermLen}

\* code unit of a character (String.prototype ordering, "C" collation)
CharCode(c) ==
  CASE c = " " -> 32 [] c = "%" -> 37 [] c = "@" -> 64 [] c = "A" -> 65
    [] c = "_" -> 95 [] c = "a" -> 97 [] c = "b" -> 98

Lower(c) == IF c = "A" THEN "a" ELSE c

\* String.prototype.trim
RECURSIVE TrimLeft(_)
TrimLeft(str) == IF str # <<>> /\ Head(str) = " " THEN TrimLeft(Tail(str)) ELSE str
RECURSIVE TrimRight(_)
TrimRight(str) ==
  IF str # <<>> /\ str[Len(str)] = " " THEN TrimRight(SubSeq(str, 1, Len(str) - 1)) ELSE str
Trim(str) == TrimRight(TrimLeft(str))

\* searchTerm.startsWith('@') ? searchTerm.slice(1) : searchTerm
CleanUsernameKeepAt(term) == term
CleanUsername(term) == IF term # <<>> /\ Head(term) = "@" THEN Tail(term) ELSE term

\* the two early returns: !searchTerm.trim() and !cleanUsername.trim()
EmptyQuery(term) == Trim(term) = <<>> \/ Trim(CleanUsername(term)) = <<>>

NoCall == [fn |-> "none", empty |-> FALSE]

\* SQL ILIKE: % matches any run of characters, _ any one character, every
\* other character itself without regard to case
RECURSIVE ILike(_, _)
ILike(str, pattern) ==
  IF pattern = <<>> THEN str = <<>>
  ELSE IF Head(pattern) = "%"
       THEN ILike(str, Tail(pattern)) \/ (str # <<>> /\ ILike(Tail(str), pattern))
  ELSE IF Head(pattern) = "_"
       THEN str # <<>> /\ ILike(Tail(str), Tail(pattern))
  ELSE /\ str # <<>>
       /\ Lower(Head(str)) = Lower(Head(pattern))
       /\ ILike(Tail(str), Tail(pattern))

\* text ordering of two usernames
RECURSIVE TextLess(_, _)
TextLess(x, y) ==
  IF y = <<>> THEN FALSE
  ELSE IF x = <<>> THEN TRUE
  ELSE IF Head(x) = Head(y) THEN TextLess(Tail(x), Tail(y))
  ELSE CharCode(Head(x)) < CharCode(Head(y))

\* .order('username'): usernames are UNIQUE, so the order is total
OrderByUsername(rows) ==
  [i \in 1..Cardinality(rows) |->
     CHOOSE p \in rows :
       Cardinality({q \in rows : TextLess(q.username, p.username)}) = i - 1]

SearchLimit == 10

\* the profiles table: one profile per handle of one or two characters
ProfileId(h) ==
  LET idx(c) == CASE c = "a" -> 1 [] c = "A" -> 2 [] c = "b" -> 3 [] c = "_" -> 4
  IN IF Len(h) = 1 THEN idx(h[1]) ELSE 4 * idx(h[1]) + idx(h[2])

Profiles ==
  {[id |-> ProfileId(h), username |-> h] :
     h \in UNION {[1..n -> HandleChars] : n \in 1..2}}

\* the signed-in user's profile (UserList passes currentUser.id)
currentUserId == ProfileId(<<"A">>)

\* .from('profiles').select('*').ilike('username', `%${cleanUsername}%`)
\* .order('username').limit(10)
SearchQuery(cleanUsername) ==
  Limit(OrderByUsername({p \in Profiles :
                           ILike(p.username, <<"%">> \o cleanUsername \o <<"%">>)}),
        SearchLimit)

\* clearSearch: setSearchResults([]), setError(null)
ClearSearch ==
  /\ searchResults' = <<>>
  /\ searchError' = FALSE
  /\ lastCall' = NoCall

\* searchUserByUsername up to the await (the select is served when issued)
SearchUserByUsername(term, ok) ==
  /\ lastCall' = [fn |-> "searchUserByUsername", empty |-> EmptyQuery(term)]
  /\ IF Trim(term) = <<>>
     THEN /\ searchResults' = <<>>
          /\ UNCHANGED <<searchLoading, searchError, searchInflight>>
     ELSE IF Trim(CleanUsername(term)) = <<>>
     THEN /\ searchResults' = <<>>
          /\ searchLoading' = FALSE
          /\ searchError' = FALSE
          /\ UNCHANGED searchInflight
     ELSE /\ Cardinality(searchInflight) < MaxSearchInflight
          /\ searchLoading' = TRUE
          /\ searchError' = FALSE
          /\ searchInflight' = searchInflight \cup
               {[fn |-> "searchUserByUsername", term |-> term, ok |-> ok,
                 data |-> IF ok THEN SearchQuery(CleanUsername(term)) ELSE <<>>]}
          /\ UNCHANGED searchResults

\* onChange of the input: setSearchTerm; the effect restarts the 300 ms timer
SetSearchTerm(t) ==
  /\ t \in SearchTerms /\ t # searchTerm
  /\ searchTerm' = t
  /\ debounce' = TRUE
  /\ UNCHANGED <<isOpen, selectedIndex, searchResults, searchLoading, searchError,
                 searchInflight, lastCall, selectedUser>>
  /\ UNCHANGED <<dbVars, feed, storeVars, sendVars, convVars, viewVars, authVars>>

\* the debounce timer fires
DelayedSearch(ok) ==
  /\ debounce
  /\ debounce' = FALSE
  /\ IF Trim(searchTerm) # <<>>
     THEN /\ SearchUserByUsername(searchTerm, ok)
          /\ isOpen' = TRUE
     ELSE /\ ClearSearch
          /\ isOpen' = FALSE
          /\ UNCHANGED <<searchLoading, searchInflight>>
  /\ UNCHANGED <<searchTerm, selectedIndex, selectedUser>>
  /\ UNCHANGED <<dbVars, feed, storeVars, sendVars, convVars, viewVars, authVars>>

\* searchUserByUsername after the await
SearchResponse(r) ==
  /\ r \in searchInflight /\ r.fn = "searchUserByUsername"
  /\ searchInflight' = searchInflight \ {r}
  /\ lastCall' = NoCall
  /\ IF r.ok
     THEN /\ searchResults' = r.data
          /\ UNCHANGED searchError
     ELSE /\ searchError' = TRUE
          /\ searchResults' = <<>>
  /\ searchLoading' = FALSE
  /\ UNCHANGED <<searchTerm, isOpen, selectedIndex, debounce, selectedUser>>
  /\ UNCHANGED <<dbVars, feed, storeVars, sendVars, convVars, viewVars, authVars>>

\* handleSelectUser: the guard on currentUserId, onSelectUser(user),
\* setSearchTerm(''), setIsOpen(false), clearSearch()
HandleSelectUserUnguarded(user) ==
  /\ selectedUser' = user.id
  /\ searchTerm' = <<>>
  /\ debounce' = (debounce \/ searchTerm # <<>>)
  /\ isOpen' = FALSE
  /\ ClearSearch
HandleSelectUser(user) ==
  IF user.id # currentUserId
  THEN /\ selectedUser' = user.id
       /\ searchTerm' = <<>>
       /\ debounce' = (debounce \/ searchTerm # <<>>)
       /\ isOpen' = FALSE
       /\ ClearSearch
  ELSE UNCHANGED <<selectedUser, searchTerm, debounce, isOpen, searchResults, searchError,
                   lastCall>>

\* filteredResults = searchResults.filter(user => user.id !== currentUserId)
FilteredResults == SelectSeq(searchResults, LAMBDA user : user.id # currentUserId)

\* the result rows are rendered
RowsShown == isOpen /\ ~searchLoading /\ ~searchError /\ Len(FilteredResults) > 0

\* onClick of the row at `index` of filteredResults
ClickResult(index) ==
  /\ RowsShown
  /\ index \in 1..Len(FilteredResults)
  /\ HandleSelectUser(FilteredResults[index])
  /\ UNCHANGED <<selectedIndex, searchLoading, searchInflight>>
  /\ UNCHANGED <<dbVars, feed, storeVars, sendVars, convVars, viewVars, authVars>>

\* handleKeyDown; selectedIndex counts from 0 as in the code
KeyDown(key) ==
  /\ isOpen /\ Len(searchResults) # 0
  /\ CASE key = "ArrowDown" ->
            /\ selectedIndex' = IF selectedIndex < Len(searchResults) - 1
                                THEN selectedIndex + 1 ELSE 0
            /\ UNCHANGED <<selectedUser, searchTerm, debounce, isOpen, searchResults,
                           searchError, lastCall>>
       [] key = "ArrowUp" ->
            /\ selectedIndex' = IF selectedIndex > 0
                                THEN selectedIndex - 1 ELSE Len(searchResults) - 1
            /\ UNCHANGED <<selectedUser, searchTerm, debounce, isOpen, searchResults,
                           searchError, lastCall>>
       [] key = "Enter" ->
            /\ IF selectedIndex >= 0 /\ selectedIndex < Len(searchResults)
               THEN HandleSelectUser(searchResults[selectedIndex + 1])
               ELSE UNCHANGED <<selectedUser, searchTerm, debounce, isOpen, searchResults,
                                searchError, lastCall>>
            /\ UNCHANGED selectedIndex
       [] key = "Escape" ->
            /\ isOpen' = FALSE
            /\ selectedIndex' = -1
            /\ UNCHANGED <<selectedUser, searchTerm, debounce, searchResults, searchError,
                           lastCall>>
  /\ UNCHANGED <<searchLoading, searchInflight>>
  /\ UNCHANGED <<dbVars, feed, storeVars, sendVars, convVars, viewVars, authVars>>

\* clearSearchInput (the X button, rendered while searchTerm is non-empty)
ClearSearchInput ==
  /\ searchTerm # <<>>
  /\ searchTerm' = <<>>
  /\ debounce' = TRUE
  /\ isOpen' = FALSE
  /\ ClearSearch
  /\ UNCHANGED <<selectedIndex, searchLoading, searchInflight, selectedUser>>
  /\ UNCHANGED <<dbVars, feed, storeVars, sendVars, convVars, viewVars, authVars>>

\* mousedown outside the input and the dropdown
HandleClickOutside ==
  /\ isOpen
  /\ isOpen' = FALSE
  /\ UNCHANGED <<searchTerm, selectedIndex, debounce, searchResults, searchLoading,
                 searchError, searchInflight, lastCall, selectedUser>>
  /\ UNCHANGED <<dbVars, feed, storeVars, sendVars, convVars, viewVars, authVars>>

\* onFocus of the input
OnFocus ==
  /\ ~isOpen
  /\ Trim(searchTerm) # <<>> /\ Len(FilteredResults) > 0
  /\ isOpen' = TRUE
  /\ UNCHANGED <<searchTerm, selectedIndex, debounce, searchResults, searchLoading,
                 searchError, searchInflight, lastCall, selectedUser>>
  /\ UNCHANGED <<dbVars, feed, storeVars, sendVars, convVars, viewVars, authVars>>

\* ---- the hook's functions called directly, with any argument
MaxQueryLen == 2
Queries == UNION {[1..n -> TermChars] : n \in 0..MaxQueryLen}

\* .from('profiles').select('*').eq('username', cleanUsername).maybeSingle()
ExactQuery(cleanUsername) == {p \in Profiles : p.username = cleanUsername}

CallSearchUserByUsername(term, ok) ==
  /\ SearchUserByUsername(term, ok)
  /\ UNCHANGED <<searchTerm, isOpen, selectedIndex, debounce, selectedUser>>
  /\ UNCHANGED <<dbVars, feed, storeVars, sendVars, convVars, viewVars, authVars>>

\* searchUserByExactUsername up to the await; no path of the function calls
\* setSearchResults
SearchUserByExactUsername(username, ok) ==
  /\ lastCall' = [fn |-> "searchUserByExactUsername", empty |-> EmptyQuery(username)]
  /\ IF Trim(username) = <<>>
     THEN UNCHANGED <<searchLoading, searchError, searchInflight>>
     ELSE IF Trim(CleanUsername(username)) = <<>>
     THEN /\ searchLoading' = FALSE
          /\ searchError' = FALSE
          /\ UNCHANGED searchInflight
     ELSE /\ Cardinality(searchInflight) < MaxSearchInflight
          /\ searchLoading' = TRUE
          /\ searchError' = FALSE
          /\ searchInflight' = searchInflight \cup
               {[fn |-> "searchUserByExactUsername", term |-> username, ok |-> ok,
                 data |-> <<>>]}
  /\ UNCHANGED <<searchResults, searchTerm, isOpen, selectedIndex, debounce, selectedUser>>
  /\ UNCHANGED <<dbVars, feed, storeVars, sendVars, convVars, viewVars, authVars>>

\* searchUserByExactUsername after the await: return data, or setError and
\* return null; finally setLoading(false)
ExactUsernameResponse(r) ==
  /\ r \in searchInflight /\ r.fn = "searchUserByExactUsername"
  /\ searchInflight' = searchInflight \ {r}
  /\ searchError' = IF r.ok THEN searchError ELSE TRUE
  /\ searchLoading' = FALSE
  /\ lastCall' = NoCall
  /\ UNCHANGED <<searchResults, searchTerm, isOpen, selectedIndex, debounce, selectedUser>>
  /\ UNCHANGED <<dbVars, feed, storeVars, sendVars, convVars, viewVars, authVars>>

CallClearSearch ==
  /\ ClearSearch
  /\ UNCHANGED <<searchLoading, searchInflight, searchTerm, isOpen, selectedIndex, debounce,
                 selectedUser>>
  /\ UNCHANGED <<dbVars, feed, storeVars, sendVars, convVars, viewVars, authVars>>

\* =================================================================
\* The thread view: MessageList's own useMessages instance
\* =================================================================
\* ChatRoom mounts MessageList and MessageInput side by side; each calls
\* useMessages(selectedUser.id) and so holds its own messages state. The
\* list on screen is MessageList's (viewMessages); sendMessage runs in
\* MessageInput's instance (messages).

\* fetchMessages of the view up to the await
ViewIssueFetch(peer, refresh) ==
  /\ Cardinality(viewInflight) < MaxViewInflight
  /\ viewLoading' = TRUE
  /\ \E ok \in BOOLEAN :
       \E data \in (IF ok THEN FetchMessagesQuery(dbMessages, Self, peer) ELSE {<<>>}) :
         viewInflight' = viewInflight \cup
           {[kind |-> "fetch", ok |-> ok, data |-> data, peer |-> peer, refresh |-> refresh]}

\* handleRefresh: the refresh button, or handleMessageSent 100 ms after a send
ViewRefreshMessages ==
  /\ recipientId # NoPeer
  /\ ViewIssueFetch(recipientId, TRUE)
  /\ UNCHANGED <<dbVars, feed, storeVars, sendVars, convVars, searchVars, viewMessages, authVars>>

\* the timer of handleSubmit fires, with MessageList as its own instance
ViewMessageSentTimerFires ==
  /\ messageSentTimer
  /\ messageSentTimer' = FALSE
  /\ ViewIssueFetch(recipientId, TRUE)
  /\ UNCHANGED <<dbVars, feed, storeVars, sending, send, sendCalls, convVars, searchVars, viewMessages, authVars>>

\* fetchMessages of the view after the await
ViewFetchMessagesResponse(r, seenOk) ==
  /\ r \in viewInflight /\ r.kind = "fetch"
  /\ viewMessages' = IF r.ok THEN r.data ELSE <<>>
  /\ viewLoading' = FALSE
  /\ viewInflight' = viewInflight \ {r}
  /\ RpcMarkSeen(r.refresh /\ seenOk, r.peer, Self)
  /\ UNCHANGED <<conversations, now, storeVars, sendVars, convVars, searchVars, authVars>>

\* INSERT and UPDATE handlers of the view up to the await
ViewOnEvent ==
  /\ Subscribed
  /\ feed # <<>>
  /\ feed' = Tail(feed)
  /\ LET ev == Head(feed)
     IN IF IsRelevantMessage(ev, Self, recipientId)
        THEN /\ Cardinality(viewInflight) < MaxViewInflight
             /\ \E ok \in BOOLEAN :
                  IF ok
                  THEN \E data \in SingleRow(dbMessages, ev.id) :
                         viewInflight' = viewInflight \cup
                           {[kind |-> ev.type, ok |-> TRUE, data |-> <<data>>,
                             peer |-> recipientId, refresh |-> FALSE]}
                  ELSE UNCHANGED viewInflight
        ELSE UNCHANGED viewInflight
  /\ UNCHANGED <<dbVars, storeVars, sendVars, convVars, searchVars, viewMessages, viewLoading, authVars>>

\* INSERT handler of the view after the await
ViewInsertRefetchResponse(r) ==
  /\ r \in viewInflight /\ r.kind = "INSERT"
  /\ viewMessages' = AppendIfAbsent(viewMessages, r.data[1])
  /\ seenTimer' = IF r.data[1].user_id = r.peer THEN seenTimer \cup {r.peer} ELSE seenTimer
  /\ viewInflight' = viewInflight \ {r}
  /\ UNCHANGED <<dbVars, feed, recipientId, messages, loading, inflight, sendVars,
                 convVars, searchVars, viewLoading, authVars>>

\* UPDATE handler of the view after the await
ViewUpdateRefetchResponse(r) ==
  /\ r \in viewInflight /\ r.kind = "UPDATE"
  /\ viewMessages' = ReplaceById(viewMessages, r.data[1].id, r.data[1])
  /\ viewInflight' = viewInflight \ {r}
  /\ UNCHANGED <<dbVars, feed, storeVars, sendVars, convVars, searchVars, viewLoading, authVars>>

\* =================================================================
\* useAuth (the effect, ensureProfileExists) and ChatRoom's profile
\* =================================================================

MaxIntervals == 3     \* setInterval calls of one hook instance
MaxProfileJobs == 2   \* overlapping runs of each profile function

\* currentUserProfile is NoProfile (null), "row" or "minimal"
NoProfile == "null"

Jobs(j) == j.select + j.insert

\* useEffect on [user] of ChatRoom, run when setUser(u) changes the user:
\* fetchCurrentUserProfile() up to its await, or the reset on no user
UserEffect(u) ==
  IF u # Null
  THEN /\ profileLoading' = TRUE
       /\ profileJobs' = [profileJobs EXCEPT !.select = @ + 1]
       /\ UNCHANGED currentUserProfile
  ELSE IF authUser = Null
  THEN UNCHANGED profileVars
  ELSE /\ currentUserProfile' = NoProfile
       /\ profileLoading' = FALSE
       /\ UNCHANGED profileJobs

\* ensureProfileExists(session.user) up to its first await; not awaited
StartEnsure == ensureJobs' = [ensureJobs EXCEPT !.select = @ + 1]

JobRoom == Jobs(ensureJobs) < MaxProfileJobs /\ Jobs(profileJobs) < MaxProfileJobs

\* initializeAuth after `await supabase.auth.getSession()`
GetSessionResolves(outcome) ==
  /\ getSessionPending
  /\ getSessionPending' = FALSE
  /\ timeoutId' = FALSE
  /\ UNCHANGED <<authMounted, authEvent, ensureResult, profileRow>>
  /\ IF ~authMounted
     THEN UNCHANGED <<authUser, authLoading, authError, lastSeenInterval, activeIntervals,
                      intervalCount, ensureJobs, profileVars>>
     ELSE /\ authLoading' = FALSE
          /\ CASE outcome = "error" ->
                    /\ authError' = TRUE
                    /\ authUser' = Null
                    /\ UserEffect(Null)
                    /\ UNCHANGED <<lastSeenInterval, activeIntervals, intervalCount, ensureJobs>>
               [] outcome = "session" ->
                    /\ intervalCount < MaxIntervals /\ JobRoom
                    /\ authUser' = Self
                    /\ UserEffect(Self)
                    /\ StartEnsure
                    /\ intervalCount' = intervalCount + 1
                    /\ lastSeenInterval' = intervalCount + 1
                    /\ activeIntervals' = activeIntervals \cup {intervalCount + 1}
                    /\ UNCHANGED authError
               [] outcome = "none" ->
                    /\ authUser' = Null
                    /\ UserEffect(Null)
                    /\ UNCHANGED <<authError, lastSeenInterval, activeIntervals, intervalCount,
                                   ensureJobs>>
  /\ UNCHANGED chatVars

\* the 5 s timeout of initializeAuth fires
AuthTimeoutFiresOnlyWarns ==
  /\ timeoutId
  /\ timeoutId' = FALSE
  /\ UNCHANGED <<authMounted, authUser, authLoading, authError, getSessionPending,
                 lastSeenInterval, activeIntervals, intervalCount, authEvent, ensureVars,
                 profileRow, profileVars>>
  /\ UNCHANGED chatVars
AuthTimeoutFires ==
  /\ timeoutId
  /\ timeoutId' = FALSE
  /\ authLoading' = IF authMounted THEN FALSE ELSE authLoading
  /\ UNCHANGED <<authMounted, authUser, authError, getSessionPending, lastSeenInterval,
                 activeIntervals, intervalCount, authEvent, ensureVars, profileRow, profileVars>>
  /\ UNCHANGED chatVars

\* the onAuthStateChange callback, with or without a session
OnAuthStateChange(hasSession) ==
  /\ authMounted
  /\ authError' = FALSE
  /\ authLoading' = FALSE
  /\ authEvent' = IF hasSession THEN "SIGNED_IN" ELSE "SIGNED_OUT"
  /\ IF hasSession
     THEN /\ intervalCount < MaxIntervals /\ JobRoom
          /\ authUser' = Self
          /\ UserEffect(Self)
          /\ StartEnsure
          /\ intervalCount' = intervalCount + 1
          /\ lastSeenInterval' = intervalCount + 1
          /\ activeIntervals' = (activeIntervals \ {lastSeenInterval}) \cup {intervalCount + 1}
     ELSE /\ authUser' = Null
          /\ UserEffect(Null)
          /\ activeIntervals' = activeIntervals \ {lastSeenInterval}
          /\ UNCHANGED <<lastSeenInterval, intervalCount, ensureJobs>>
  /\ UNCHANGED <<authMounted, getSessionPending, timeoutId, ensureResult, profileRow>>
  /\ UNCHANGED chatVars

\* cleanup of the effect: mounted = false, clearTimeout, clearInterval of the
\* handle in lastSeenInterval, unsubscribe
AuthCleanup ==
  /\ authMounted
  /\ authMounted' = FALSE
  /\ timeoutId' = FALSE
  /\ activeIntervals' = activeIntervals \ {lastSeenInterval}
  /\ UNCHANGED <<authUser, authLoading, authError, getSessionPending, lastSeenInterval,
                 intervalCount, authEvent, ensureVars, profileRow, profileVars>>
  /\ UNCHANGED chatVars

\* ensureProfileExists after the select (.maybeSingle()): an existing row is
\* returned after updateLastSeen; with no row, also on a select error, the
\* insert follows; an exception returns null
EnsureSelectResponse(outcome) ==
  /\ ensureJobs.select > 0
  /\ outcome = "row" => profileRow
  /\ outcome = "none" => ~profileRow
  /\ CASE outcome = "row" ->
            /\ ensureJobs' = [ensureJobs EXCEPT !.select = @ - 1, !.read = outcome]
            /\ ensureResult' = "profile"
       [] outcome \in {"none", "error"} ->
            /\ ensureJobs' = [ensureJobs EXCEPT !.select = @ - 1, !.read = outcome, !.insert = @ + 1]
            /\ UNCHANGED ensureResult
       [] outcome = "thrown" ->
            /\ ensureJobs' = [ensureJobs EXCEPT !.select = @ - 1, !.read = outcome]
            /\ ensureResult' = "null"
  /\ UNCHANGED <<hookVars, profileRow, profileVars>>
  /\ UNCHANGED chatVars

\* ensureProfileExists after the insert (.select().single())
EnsureInsertResponse(outcome) ==
  /\ ensureJobs.insert > 0
  /\ outcome = "created" => ~profileRow
  /\ ensureJobs' = [ensureJobs EXCEPT !.insert = @ - 1]
  /\ IF outcome = "created"
     THEN /\ profileRow' = TRUE
          /\ ensureResult' = "profile"
     ELSE /\ ensureResult' = "null"
          /\ UNCHANGED profileRow
  /\ UNCHANGED <<hookVars, profileVars>>
  /\ UNCHANGED chatVars

\* fetchCurrentUserProfile after the select: error (data is null with it)
\* leads to the insert; a row is shown; no row or an exception gives the
\* minimal profile; finally setProfileLoading(false)
FetchProfileSelectResponse(outcome) ==
  /\ profileJobs.select > 0
  /\ outcome = "row" => profileRow
  /\ outcome = "none" => ~profileRow
  /\ CASE outcome = "row" ->
            /\ profileJobs' = [profileJobs EXCEPT !.select = @ - 1, !.read = outcome]
            /\ currentUserProfile' = "row"
            /\ profileLoading' = FALSE
       [] outcome = "error" ->
            /\ profileJobs' = [profileJobs EXCEPT !.select = @ - 1, !.read = outcome, !.insert = @ + 1]
            /\ UNCHANGED <<currentUserProfile, profileLoading>>
       [] outcome \in {"none", "thrown"} ->
            /\ profileJobs' = [profileJobs EXCEPT !.select = @ - 1, !.read = outcome]
            /\ currentUserProfile' = "minimal"
            /\ profileLoading' = FALSE
  /\ UNCHANGED <<hookVars, ensureVars, profileRow>>
  /\ UNCHANGED chatVars

\* fetchCurrentUserProfile after the insert: the new row, or the minimal
\* profile on createError or an exception; finally setProfileLoading(false)
FetchProfileInsertResponseNoFallback(outcome) ==
  /\ profileJobs.insert > 0
  /\ outcome = "created" => ~profileRow
  /\ profileJobs' = [profileJobs EXCEPT !.insert = @ - 1]
  /\ IF outcome = "created"
     THEN /\ profileRow' = TRUE
          /\ currentUserProfile' = "row"
     ELSE UNCHANGED <<profileRow, currentUserProfile>>
  /\ profileLoading' = FALSE
  /\ UNCHANGED <<hookVars, ensureVars>>
  /\ UNCHANGED chatVars
FetchProfileInsertResponse(outcome) ==
  /\ profileJobs.insert > 0
  /\ outcome = "created" => ~profileRow
  /\ profileJobs' = [profileJobs EXCEPT !.insert = @ - 1]
  /\ IF outcome = "created"
     THEN /\ profileRow' = TRUE
          /\ currentUserProfile' = "row"
     ELSE /\ currentUserProfile' = "minimal"
          /\ UNCHANGED profileRow
  /\ profileLoading' = FALSE
  /\ UNCHANGED <<hookVars, ensureVars>>
  /\ UNCHANGED chatVars

\* useAuth after the first run of its effect: initializeAuth is at its await
\* of getSession with the 5 s timeout set, onAuthStateChange is subscribed
InitHook ==
  /\ authMounted = TRUE
  /\ authUser = Null
  /\ authLoading = TRUE
  /\ authError = FALSE
  /\ getSessionPending = TRUE
  /\ timeoutId = TRUE
  /\ lastSeenInterval = Null
  /\ activeIntervals = {}
  /\ intervalCount = 0
  /\ authEvent = "NONE"
  /\ ensureJobs = [select |-> 0, insert |-> 0, read |-> "unread"]
  /\ ensureResult = "none"
  /\ currentUserProfile = NoProfile
  /\ profileLoading = FALSE
  /\ profileJobs = [select |-> 0, insert |-> 0, read |-> "unread"]

InitAuthVars ==
  /\ InitHook
  /\ profileRow = TRUE

InitViewVars ==
  /\ viewMessages = <<>>
  /\ viewLoading = FALSE
  /\ viewInflight = {}

InitSearchVars ==
  /\ searchTerm = <<>>
  /\ isOpen = FALSE
  /\ selectedIndex = -1
  /\ debounce = TRUE
  /\ searchResults = <<>>
  /\ searchLoading = FALSE
  /\ searchError = FALSE
  /\ searchInflight = {}
  /\ lastCall = NoCall
  /\ selectedUser = Null

InitCommon ==
  /\ InitSearchVars
  /\ InitViewVars
  /\ InitAuthVars
  /\ dbMessages = {}
  /\ conversations = {}
  /\ now = 1
  /\ feed = <<>>
  /\ recipientId = NoPeer
  /\ messages = <<>>
  /\ loading = FALSE
  /\ inflight = {}
  /\ seenTimer = {}
  /\ sending = FALSE
  /\ messageSentTimer = FALSE
  /\ sendCalls = [c \in SendCallers |-> [pc |-> "idle"]]
  /\ send = [pc |-> "idle"]
  /\ convCalls = [c \in ConvCallers |-> IdleCall]
  /\ convReturned = {}
  /\ convCallCount = 0

\* Spec starts where every pair of users has talked before: the conversations
\* table holds their rows (first contact is the subject of SpecConv)
AllConversations ==
  {[id |-> 4 * c[1] + c[2], user1_id |-> c[1], user2_id |-> c[2]] :
     c \in {d \in Users \X Users : d[1] < d[2]}}

Init ==
  /\ InitSearchVars
  /\ InitViewVars
  /\ InitAuthVars
  /\ conversations = AllConversations
  /\ dbMessages = {}
  /\ now = 1
  /\ feed = <<>>
  /\ recipientId = NoPeer
  /\ messages = <<>>
  /\ loading = FALSE
  /\ inflight = {}
  /\ seenTimer = {}
  /\ sending = FALSE
  /\ messageSentTimer = FALSE
  /\ sendCalls = [c \in SendCallers |-> [pc |-> "idle"]]
  /\ send = [pc |-> "idle"]
  /\ convCalls = [c \in ConvCallers |-> IdleCall]
  /\ convReturned = {}
  /\ convCallCount = 0

Next ==
  \/ \E p \in Peers, seenOk \in BOOLEAN : SelectPeer(p, seenOk)
  \/ RefreshMessages
  \/ \E r \in inflight, seenOk \in BOOLEAN : FetchMessagesResponse(r, seenOk)
  \/ OnEvent
  \/ \E r \in inflight : InsertRefetchResponse(r)
  \/ \E r \in inflight : UpdateRefetchResponse(r)
  \/ \E p \in Peers, seenOk \in BOOLEAN : SeenTimerFires(p, seenOk)
  \/ HandleSubmit
  \/ \E convOk \in BOOLEAN, persisted \in BOOLEAN, answered \in BOOLEAN, fresh \in BOOLEAN :
       SendPersist(convOk, persisted, answered, fresh)
  \/ SendResponse
  \/ \E deliveredOk \in BOOLEAN : SendSideEffects(deliveredOk)
  \/ MessageSentTimerFires
  \/ \E u \in Peers, v \in Users, fresh \in BOOLEAN : PeerSend(u, v, fresh)
  \/ \E a \in Users, b \in Peers : PeerMarkSeen(a, b)
  \/ \E u \in Peers : PeerMarkDelivered(u)

Spec == Init /\ [][Next]_vars

\* ---- SpecBackend: the procedures and the insert, called by any client
NextBackend ==
  \/ \E u \in Users, v \in Users, fresh \in BOOLEAN : AnySend(u, v, fresh)
  \/ \E a \in Users, b \in Users : ClientMarkSeen(a, b)
  \/ \E u \in Users : ClientMarkDelivered(u)

SpecBackend == Init /\ [][NextBackend]_vars

\* ---- SpecHistory: loads of a thread of 0..MaxHistory messages with one peer
HistoryPeer == 2

HistoryRow(i) ==
  [id |-> UuidSpace - i, content |-> 0,
   user_id |-> IF i % 2 = 1 THEN Self ELSE HistoryPeer,
   recipient_id |-> IF i % 2 = 1 THEN HistoryPeer ELSE Self,
   conversation_id |-> SelectConversation(AllConversations, CanonicalPair(Self, HistoryPeer)),
   created_at |-> i, delivered_at |-> NotNull, seen_at |-> NotNull, status |-> "seen"]

InitHistory ==
  /\ \E n \in 0..MaxHistory :
       /\ dbMessages = {HistoryRow(i) : i \in 1..n}
       /\ now = n + 1
  /\ conversations = AllConversations
  /\ InitSearchVars
  /\ InitViewVars
  /\ InitAuthVars
  /\ feed = <<>>
  /\ recipientId = NoPeer
  /\ messages = <<>>
  /\ loading = FALSE
  /\ inflight = {}
  /\ seenTimer = {}
  /\ sending = FALSE
  /\ messageSentTimer = FALSE
  /\ sendCalls = [c \in SendCallers |-> [pc |-> "idle"]]
  /\ send = [pc |-> "idle"]
  /\ convCalls = [c \in ConvCallers |-> IdleCall]
  /\ convReturned = {}
  /\ convCallCount = 0

NextHistory ==
  \/ \E seenOk \in BOOLEAN : SelectPeer(HistoryPeer, seenOk)
  \/ RefreshMessages
  \/ \E r \in inflight, seenOk \in BOOLEAN : FetchMessagesResponse(r, seenOk)

SpecHistory == InitHistory /\ [][NextHistory]_vars

\* ---- SpecSearch: the search box over the profile directory
NextSearch ==
  \/ \E t \in SearchTerms : SetSearchTerm(t)
  \/ \E ok \in BOOLEAN : DelayedSearch(ok)
  \/ \E r \in searchInflight : SearchResponse(r)
  \/ \E index \in 1..SearchLimit : ClickResult(index)
  \/ \E key \in {"ArrowDown", "ArrowUp", "Enter", "Escape"} : KeyDown(key)
  \/ ClearSearchInput
  \/ HandleClickOutside
  \/ OnFocus

SpecSearch == Init /\ [][NextSearch]_vars

\* ---- SpecHook: one useUserSearch instance whose functions are called
\* with any argument
NextHook ==
  \/ \E term \in Queries, ok \in BOOLEAN : CallSearchUserByUsername(term, ok)
  \/ \E r \in searchInflight : SearchResponse(r)
  \/ \E username \in Queries, ok \in BOOLEAN : SearchUserByExactUsername(username, ok)
  \/ \E r \in searchInflight : ExactUsernameResponse(r)
  \/ CallClearSearch

SpecHook == Init /\ [][NextHook]_vars

\* ---- SpecThread: an open thread with HistoryPeer. The composer sends; the
\* channel in `feed` is the one of the thread view, whose handlers run here.
InitThread ==
  /\ InitSearchVars
  /\ InitViewVars
  /\ InitAuthVars
  /\ conversations = AllConversations
  /\ dbMessages = {}
  /\ now = 1
  /\ feed = <<>>
  /\ recipientId = HistoryPeer
  /\ messages = <<>>
  /\ loading = FALSE
  /\ inflight = {}
  /\ seenTimer = {}
  /\ sending = FALSE
  /\ messageSentTimer = FALSE
  /\ sendCalls = [c \in SendCallers |-> [pc |-> "idle"]]
  /\ send = [pc |-> "idle"]
  /\ convCalls = [c \in ConvCallers |-> IdleCall]
  /\ convReturned = {}
  /\ convCallCount = 0

NextThread ==
  \/ HandleSubmit
  \/ \E convOk \in BOOLEAN, persisted \in BOOLEAN, answered \in BOOLEAN, fresh \in BOOLEAN :
       SendPersist(convOk, persisted, answered, fresh)
  \/ SendResponse
  \/ \E deliveredOk \in BOOLEAN : SendSideEffects(deliveredOk)
  \/ ViewMessageSentTimerFires
  \/ ViewRefreshMessages
  \/ \E r \in viewInflight, seenOk \in BOOLEAN : ViewFetchMessagesResponse(r, seenOk)
  \/ ViewOnEvent
  \/ \E r \in viewInflight : ViewInsertRefetchResponse(r)
  \/ \E r \in viewInflight : ViewUpdateRefetchResponse(r)
  \/ \E b \in Peers : PeerMarkSeen(Self, b)
  \/ \E u \in Peers : PeerMarkDelivered(u)

SpecThread == InitThread /\ [][NextThread]_vars

\* ---- SpecOrder: one store instance with the thread of HistoryPeer open,
\* the peer sending too; the backend accepts MaxBackendRows rows
NextOrder ==
  \/ HandleSubmit
  \/ \E convOk \in BOOLEAN, persisted \in BOOLEAN, answered \in BOOLEAN, fresh \in BOOLEAN :
       SendPersistWithin(MaxBackendRows, convOk, persisted, answered, fresh)
  \/ SendResponse
  \/ \E deliveredOk \in BOOLEAN : SendSideEffects(deliveredOk)
  \/ MessageSentTimerFires
  \/ \E r \in inflight, seenOk \in BOOLEAN : FetchMessagesResponse(r, seenOk)
  \/ OnEvent
  \/ \E r \in inflight : InsertRefetchResponse(r)
  \/ \E r \in inflight : UpdateRefetchResponse(r)
  \/ \E p \in Peers, seenOk \in BOOLEAN : SeenTimerFires(p, seenOk)
  \/ \E fresh \in BOOLEAN : AnySend(HistoryPeer, Self, fresh)

SpecOrder == InitThread /\ [][NextOrder]_vars

\* ---- SpecSends: one store instance with the thread of HistoryPeer open and
\* overlapping sendMessage invocations; no row is addressed to the sender,
\* so no UPDATE event arises
NextSends ==
  \/ \E c \in SendCallers : SendMessageOptimistic(c)
  \/ \E c \in SendCallers, convOk \in BOOLEAN, persisted \in BOOLEAN,
         answered \in BOOLEAN, fresh \in BOOLEAN :
       SendMessagePersist(c, convOk, persisted, answered, fresh)
  \/ \E c \in SendCallers : SendMessageResponse(c)
  \/ \E c \in SendCallers, deliveredOk \in BOOLEAN : SendMessageSideEffects(c, deliveredOk)
  \/ OnEvent
  \/ \E r \in inflight : InsertRefetchResponse(r)

SpecSends == InitThread /\ [][NextSends]_vars

\* ---- SpecSeen: SpecThread without the refresh button, with the scheduling
\* the runtime gives: a delivered event is handled, a response that has
\* arrived is processed, a timer that is set fires, an async function goes on.
NextSeen ==
  \/ HandleSubmit
  \/ \E convOk \in BOOLEAN, persisted \in BOOLEAN, answered \in BOOLEAN, fresh \in BOOLEAN :
       SendPersist(convOk, persisted, answered, fresh)
  \/ SendResponse
  \/ \E deliveredOk \in BOOLEAN : SendSideEffects(deliveredOk)
  \/ ViewMessageSentTimerFires
  \/ \E r \in viewInflight, seenOk \in BOOLEAN : ViewFetchMessagesResponse(r, seenOk)
  \/ ViewOnEvent
  \/ \E r \in viewInflight : ViewInsertRefetchResponse(r)
  \/ \E r \in viewInflight : ViewUpdateRefetchResponse(r)
  \/ PeerMarkSeen(Self, HistoryPeer)
  \/ PeerMarkDelivered(HistoryPeer)

FairSeen ==
  /\ WF_vars(\E convOk \in BOOLEAN, persisted \in BOOLEAN, answered \in BOOLEAN,
                fresh \in BOOLEAN : SendPersist(convOk, persisted, answered, fresh))
  /\ WF_vars(SendResponse)
  /\ WF_vars(\E deliveredOk \in BOOLEAN : SendSideEffects(deliveredOk))
  /\ WF_vars(ViewMessageSentTimerFires)
  /\ WF_vars(\E r \in viewInflight, seenOk \in BOOLEAN : ViewFetchMessagesResponse(r, seenOk))
  /\ WF_vars(ViewOnEvent)
  /\ WF_vars(\E r \in viewInflight : ViewInsertRefetchResponse(r))
  /\ WF_vars(\E r \in viewInflight : ViewUpdateRefetchResponse(r))

SpecSeen == InitThread /\ [][NextSeen]_vars /\ FairSeen

\* ---- SpecAuth: one useAuth instance with the ChatRoom that uses it
InitAuth ==
  /\ InitSearchVars
  /\ InitViewVars
  /\ InitHook
  /\ profileRow \in BOOLEAN
  /\ conversations = AllConversations
  /\ dbMessages = {}
  /\ now = 1
  /\ feed = <<>>
  /\ recipientId = NoPeer
  /\ messages = <<>>
  /\ loading = FALSE
  /\ inflight = {}
  /\ seenTimer = {}
  /\ sending = FALSE
  /\ messageSentTimer = FALSE
  /\ sendCalls = [c \in SendCallers |-> [pc |-> "idle"]]
  /\ send = [pc |-> "idle"]
  /\ convCalls = [c \in ConvCallers |-> IdleCall]
  /\ convReturned = {}
  /\ convCallCount = 0

NextAuth ==
  \/ \E outcome \in {"error", "session", "none"} : GetSessionResolves(outcome)
  \/ AuthTimeoutFires
  \/ \E hasSession \in BOOLEAN : OnAuthStateChange(hasSession)
  \/ AuthCleanup
  \/ \E outcome \in {"row", "none", "error", "thrown"} : EnsureSelectResponse(outcome)
  \/ \E outcome \in {"created", "error", "thrown"} : EnsureInsertResponse(outcome)
  \/ \E outcome \in {"row", "none", "error", "thrown"} : FetchProfileSelectResponse(outcome)
  \/ \E outcome \in {"created", "error", "thrown"} : FetchProfileInsertResponse(outcome)

SpecAuth == InitAuth /\ [][NextAuth]_vars

\* a timer set with setTimeout fires unless it is cleared; getSession() and
\* the notifications may never come
FairAuth == WF_vars(AuthTimeoutFires)

SpecAuthLive == InitAuth /\ [][NextAuth]_vars /\ FairAuth

InitConv == InitCommon

NextConv ==
  \/ \E c \in ConvCallers, a \in Users, b \in Users : ConvCall(c, a, b)
  \/ \E c \in ConvCallers : ConvSelect(c)
  \/ \E c \in ConvCallers : ConvInsert(c)
  \/ \E c \in ConvCallers : ConvReturn(c)
  \/ \E c \in ConvCallers : ConvRaise(c)

SpecConv == InitConv /\ [][NextConv]_vars

\* ------------------------------------------------------------------
\* C1: for every durable message id, the status held in the local list never
\* moves backward in the order sending < sent < delivered < seen, under any
\* interleaving of realtime events, re-fetch responses, history loads and sends.
LocalStatusNeverRegresses ==
  [][\A i \in 1..Len(messages) : \A j \in 1..Len(messages') :
       (messages[i].id > 0 /\ messages'[j].id = messages[i].id)
         => StatusRank(messages'[j].status) >= StatusRank(messages[i].status)]_vars

\* C2 (SpecBackend): the status of a persisted row never moves backward in the
\* order sent < delivered < seen under the insert with its trigger,
\* mark_messages_as_delivered and mark_messages_as_seen.
RowStatusNeverRegresses ==
  [][\A m \in dbMessages : \A n \in dbMessages' :
       n.id = m.id => StatusRank(n.status) >= StatusRank(m.status)]_vars

SeenBeforeDelivered ==
  \E m \in dbMessages, n \in dbMessages :
    /\ m.recipient_id = n.recipient_id
    /\ m.status = "seen" /\ m.delivered_at = Null
    /\ n.status = "delivered"

\* ------------------------------------------------------------------
\* C3: get_or_create_conversation(a, b) and get_or_create_conversation(b, a)
\* return the same conversation id, whichever is called first and whether or
\* not a row existed before: any two returned results for the same unordered
\* pair carry the same id.
SameConversationBothOrders ==
  \A r1 \in convReturned, r2 \in convReturned :
    {r1.user1, r1.user2} = {r2.user1, r2.user2} => r1.id = r2.id

BothOrdersReturned ==
  \E r1 \in convReturned, r2 \in convReturned :
    r1.user1 = r2.user2 /\ r1.user2 = r2.user1 /\ r1.user1 < r1.user2

\* C4: the conversations table holds at most one row per unordered pair of
\* identities, each stored with user1_id the smaller id, also when two
\* get_or_create_conversation calls for the pair run concurrently.
ConversationPairUnique ==
  /\ \A c \in conversations : c.user1_id < c.user2_id
  /\ \A c1 \in conversations, c2 \in conversations :
       {c1.user1_id, c1.user2_id} = {c2.user1_id, c2.user2_id} => c1 = c2

ConcurrentInsertRejected ==
  \E c \in ConvCallers, d \in ConvCallers :
    /\ convCalls[c].pc = "error"
    /\ convCalls[c].user1 = convCalls[d].user2
    /\ convCalls[c].user2 = convCalls[d].user1
    /\ convCalls[d].pc = "return"

\* C5: one invocation of sendMessage issues the durable insert at most once,
\* also when the write or the conversation lookup fails, and leaves at most
\* one persisted row.
SendInsertsAtMostOnce ==
  /\ send.pc # "idle" => send.inserts <= 1
  /\ \A k \in 1..now :
       Cardinality({m \in dbMessages : m.user_id = Self /\ m.content = k}) <= 1

PersistedSendAnsweredWithError ==
  /\ send.pc = "response" /\ send.error
  /\ \E m \in dbMessages : m.user_id = Self /\ m.content = send.optimistic.content

IsAscending(seq) ==
  \A i \in 1..(Len(seq) - 1) : seq[i].created_at <= seq[i + 1].created_at

MostRecent(rows, k) ==
  {m \in rows : Cardinality({x \in rows : x.created_at > m.created_at}) < k}

HistoryLoadMostRecent ==
  (recipientId = HistoryPeer /\ ~loading /\ inflight = {} /\ messages # <<>>)
    => {messages[i] : i \in 1..Len(messages)}
         = MostRecent({m \in dbMessages : Between(m, Self, HistoryPeer)}, HistoryLimit)

\* C10: a realtime insert or update event whose (sender, recipient) pair is
\* neither (self, peer) nor (peer, self) leaves the message list unchanged and
\* triggers no re-fetch and no mark-seen call.
IrrelevantHead ==
  /\ Subscribed /\ feed # <<>>
  /\ ~(Head(feed).user_id = Self /\ Head(feed).recipient_id = recipientId)
  /\ ~(Head(feed).user_id = recipientId /\ Head(feed).recipient_id = Self)

IrrelevantEventIgnored ==
  [][(IrrelevantHead /\ feed' = Tail(feed))
       => /\ messages' = messages
          /\ inflight' = inflight
          /\ seenTimer' = seenTimer
          /\ dbMessages' = dbMessages]_vars

IrrelevantEventPending ==
  /\ IrrelevantHead
  /\ messages # <<>>
  /\ Head(feed).recipient_id = Self
\* ---- C8: after a successful substring search for q, every profile returned
\* has a handle that contains q without its one leading '@', compared without
\* regard to case, and at most 10 profiles are returned.
ContainsIgnoreCase(str, q) ==
  \E i \in 0..(Len(str) - Len(q)) :
    \A j \in 1..Len(q) : Lower(str[i + j]) = Lower(q[j])

SearchResultsContainQuery ==
  [][\A r \in searchInflight :
       (SearchResponse(r) /\ r.ok) =>
         /\ Len(searchResults') <= 10
         /\ \A k \in 1..Len(searchResults') :
              ContainsIgnoreCase(searchResults'[k].username, CleanUsername(r.term))]_vars

\* ---- C9: onSelectUser is never invoked with the current user's own profile,
\* whether a row is clicked or Enter is pressed, whatever the results and the
\* selected index are.
OwnProfileNeverSelected == selectedUser # currentUserId

\* a selection has been made and the own profile is the highlighted entry of
\* the open dropdown, where Enter reaches handleSelectUser with it
OwnProfileHighlighted ==
  /\ selectedUser # Null
  /\ isOpen
  /\ selectedIndex >= 0 /\ selectedIndex < Len(searchResults)
  /\ searchResults[selectedIndex + 1].id = currentUserId

\* ---- C11: from the moment sendMessage creates the placeholder until the
\* durable write completes, the list rendered by the thread view holds an
\* entry with the text sent and status sending.
PlaceholderShownInThread ==
  send.pc = "persist" =>
    \E i \in 1..Len(viewMessages) :
      /\ viewMessages[i].content = send.optimistic.content
      /\ viewMessages[i].status = "sending"

\* ---- C12: when the insert of a send fails, the list afterwards holds no
\* entry with the send's temporary id, every other entry is as it was, and
\* sendMessage rejects: control is back in handleSubmit (catch, finally
\* setSending(false)) without the steps that follow a successful insert.
OtherEntries(list, id) ==
  LET keep == {i \in 1..Len(list) : list[i].id # id}
  IN [k \in 1..Cardinality(keep) |->
        list[CHOOSE i \in keep : Cardinality({j \in keep : j < i}) = k - 1]]

FailedSendRollsBack ==
  [][(send.pc = "response" /\ send.error /\ send' # send) =>
       /\ \A i \in 1..Len(messages') : messages'[i].id # send.optimistic.id
       /\ messages' = OtherEntries(messages, send.optimistic.id)
       /\ send'.pc = "idle"
       /\ sending' = FALSE]_vars

\* the insert has failed while the list holds the placeholder and another entry
FailedSendPending ==
  /\ send.pc = "response" /\ send.error
  /\ \E i, j \in 1..Len(messages) :
       /\ messages[i].id = send.optimistic.id
       /\ messages[j].id # send.optimistic.id

\* ---- C13: no two entries of the message list of a store instance have the
\* same id, however the replacement of a send's placeholder interleaves with
\* the insert event of the same row and its re-fetch response.
NoDuplicateIds ==
  \A i, j \in 1..Len(messages) : messages[i].id = messages[j].id => i = j

\* ---- C14: after the selection changes from P to Q, once Q's load has
\* completed every entry of the list is between Self and Q, also when a load
\* or an event re-fetch started under P completes after the change.
LoadCompleted ==
  /\ recipientId # NoPeer
  /\ \A r \in inflight : ~(r.kind = "fetch" /\ r.peer = recipientId)

NoStalePeerEntries ==
  LoadCompleted =>
    \A i \in 1..Len(messages) : Between(messages[i], Self, recipientId)

\* ---- C15: A has the thread with B open and subscribed and B's client has
\* marked A's message as seen. With the send over, every outstanding query
\* answered with data, the update event delivered and its re-fetch answered,
\* and the message in A's list or on its way there by the insert re-fetch,
\* A's copy of the message eventually has status seen without a manual
\* refresh, whichever re-fetch response is processed first.
MessageIds == {UuidSpace - k : k \in 0..(MaxRows - 1)}

SeenUpdateArrived(id) ==
  /\ send.pc = "idle" /\ ~messageSentTimer
  /\ \A r \in viewInflight : r.ok
  /\ \E r \in viewInflight :
       /\ r.kind = "UPDATE" /\ r.data[1].id = id
       /\ r.data[1].user_id = Self /\ r.data[1].status = "seen"
  /\ \/ \E i \in 1..Len(viewMessages) : viewMessages[i].id = id
     \/ \E r \in viewInflight : r.kind = "INSERT" /\ r.data[1].id = id

SeenShown(id) ==
  \E i \in 1..Len(viewMessages) :
    viewMessages[i].id = id /\ viewMessages[i].status = "seen"

SeenEventuallyShown ==
  \A id \in MessageIds : SeenUpdateArrived(id) ~> SeenShown(id)

\* ---- C16: after a sign-out notification, or after the unmount of the
\* session hook, no last-activity heartbeat timer created by the hook
\* instance is active, in whatever order the initial session fetch and the
\* auth-state notifications complete.
NoHeartbeatAfterSignOut ==
  ((authEvent = "SIGNED_OUT" /\ authUser = Null) \/ ~authMounted) =>
    activeIntervals = {}

\* a step of ensureProfileExists in which the read or the insert fails
EnsureFails ==
  \/ /\ ensureJobs'.select < ensureJobs.select
     /\ ensureJobs'.insert > ensureJobs.insert \/ ensureResult' = "null"
  \/ /\ ensureJobs'.insert < ensureJobs.insert
     /\ ensureResult' = "null"

\* a step on which a run of fetchCurrentUserProfile ends
FetchProfileEnds == Jobs(profileJobs') < Jobs(profileJobs)

\* ---- C17: when reading or creating the profile fails for an authenticated
\* identity, the session hook keeps the identity set, with an empty error
\* slot and loading false, and every run of ChatRoom.fetchCurrentUserProfile
\* ends with a non-null current profile and profileLoading false.
ProfileFailureNonFatal ==
  [][/\ (EnsureFails /\ authUser # Null) =>
          /\ authUser' = authUser
          /\ ~authError'
          /\ ~authLoading'
     /\ FetchProfileEnds =>
          /\ currentUserProfile' # NoProfile
          /\ ~profileLoading']_vars

ProfileFailureSurvived ==
  /\ ensureResult = "null"
  /\ authUser # Null /\ ~authError /\ ~authLoading
  /\ Jobs(profileJobs) = 0
  /\ currentUserProfile = "minimal"
  /\ ~profileLoading

\* ---- C18: when the durable write of a send succeeds, the record that
\* replaces the placeholder in the list has status sent, whatever the state
\* of the recipient's last-activity timestamp at insert time.
ReplacementHasStatusSent ==
  [][(send.pc = "response" /\ ~send.error /\ send'.pc = "effects") =>
       \A i \in 1..Len(messages) :
         messages[i].id = send.optimistic.id =>
           /\ messages'[i].id = send.sentMessage.id
           /\ messages'[i].status = "sent"]_vars

\* ---- C19: processing a relevant update event replaces exactly the list
\* entry whose id equals the refreshed record's id and leaves every other
\* entry, the list length and the entry order unchanged; when no entry has
\* that id the list is unchanged.
UpdateReplacesOnlyMatching ==
  [][\A r \in inflight :
       (r.kind = "UPDATE" /\ r \notin inflight') =>
         /\ Len(messages') = Len(messages)
         /\ \A i \in 1..Len(messages) :
              messages'[i] = IF messages[i].id = r.data[1].id
                             THEN r.data[1] ELSE messages[i]
         /\ (\A i \in 1..Len(messages) : messages[i].id # r.data[1].id) =>
              messages' = messages]_vars

UpdatePendingBesideOtherEntry ==
  \E r \in inflight :
    /\ r.kind = "UPDATE"
    /\ \E i, j \in 1..Len(messages) :
         /\ messages[i].id = r.data[1].id
         /\ messages[i] # r.data[1]
         /\ messages[j].id # r.data[1].id

\* ---- C20: after the store has processed a relevant insert event, its
\* message list is sorted by creation time ascending, also when pending
\* placeholders or confirmed sends are in the list and when the inserted id
\* was already present.
SortedAfterInsertEvent ==
  [][\A r \in inflight :
       (r.kind = "INSERT" /\ r \notin inflight') => IsAscending(messages')]_vars

\* a step on which the store starts or finishes a history load for peer p:
\* the effect for a newly selected p, or the end of refreshMessages' fetch
HistoryLoadStep(p) ==
  \/ recipientId # p /\ recipientId' = p
  \/ \E r \in inflight :
       r.kind = "fetch" /\ r.refresh /\ r.peer = p /\ r \notin inflight'

\* the rows from sender_id that a step marks as seen by viewer_id
NewlySeen(sender_id, viewer_id) ==
  {m \in dbMessages : /\ m.user_id = sender_id /\ m.recipient_id = viewer_id
                      /\ m.seen_at = Null /\ m \notin dbMessages'}

\* ---- C21: every history load for a peer (the initial load on peer
\* selection and the manual refresh) issues both a mark-delivered call for
\* the current identity and a mark-seen call for (sender = peer, viewer =
\* current identity): on a load step whose mark-seen call took effect, no
\* row addressed to the current identity is left without delivered_at.
HistoryLoadMarksDelivered ==
  [][\A p \in Peers :
       (HistoryLoadStep(p) /\ NewlySeen(p, Self) # {}) =>
         \A m \in dbMessages' : m.recipient_id = Self => m.delivered_at # Null]_vars

\* ---- C25: every mark-seen call the store issues names as sender the peer
\* that is selected when the call is issued: rows of a peer become seen by
\* the current identity only while that peer is the selected one.
MarkSeenNamesSelectedPeer ==
  [][\A p \in Peers : NewlySeen(p, Self) # {} => recipientId' = p]_vars

\* ---- C22: the client issues a profile insert for an identity only after
\* a profile read for that identity succeeded and returned no row, never
\* after a read that failed or that returned a row, in ensureProfileExists
\* and in ChatRoom.fetchCurrentUserProfile.
InsertOnlyAfterEmptyRead ==
  [][/\ ensureJobs'.insert > ensureJobs.insert => ensureJobs'.read = "none"
     /\ profileJobs'.insert > profileJobs.insert => profileJobs'.read = "none"]_vars

\* ---- C23: once the initial session fetch and all auth-state
\* notifications have been processed, the hook's identity is the identity of
\* the most recent notification (none after a sign-out), also when the
\* initial session fetch resolves after a later notification.
IdentityFollowsLastNotification ==
  (authMounted /\ ~getSessionPending /\ authEvent # "NONE") =>
    (authUser # Null <=> authEvent = "SIGNED_IN")

\* ---- C28: for a mounted session hook the loading flag eventually becomes
\* false on every path (session found, no session, session error, or a
\* session fetch that never completes, by the 5-second timeout), and once
\* false it never becomes true again.
LoadingSettles ==
  /\ <>(~authLoading \/ ~authMounted)
  /\ [][~authLoading => ~authLoading']_vars

LoadingEndedByTimeout ==
  /\ authMounted /\ getSessionPending /\ authEvent = "NONE"
  /\ ~timeoutId
  /\ ~authLoading

\* ---- C29: after any sequence of edits of the search term, once all
\* outstanding search requests have completed, searchResults is the result
\* of the most recently issued query, and is empty if the last term was
\* empty: a response to an older query never overwrites a newer result or a
\* clear.
LatestQueryWins ==
  (searchInflight = {} /\ ~debounce) =>
    IF Trim(searchTerm) = <<>>
    THEN searchResults = <<>>
    ELSE \/ searchError
         \/ searchResults = IF Trim(CleanUsername(searchTerm)) = <<>>
                            THEN <<>>
                            ELSE SearchQuery(CleanUsername(searchTerm))

\* ---- C30: in the search dropdown the profile that Enter selects is the
\* profile displayed as highlighted, and the selected index always refers to
\* a displayed row or is -1, for every result set, including one that
\* contains the current user's own profile and one that shrank after the
\* index was set.
EnterSelectsHighlighted ==
  /\ [](RowsShown => (selectedIndex = -1 \/ selectedIndex < Len(FilteredResults)))
  /\ [][(RowsShown /\ selectedIndex >= 0 /\ selectedUser' # selectedUser) =>
          /\ selectedIndex < Len(FilteredResults)
          /\ selectedUser' = FilteredResults[selectedIndex + 1].id]_vars

\* ---- C24: for both searchUserByUsername and searchUserByExactUsername, a
\* call with an empty query (empty, whitespace only, or only '@') leaves
\* searchResults empty when the call returns.
EmptyQueryLeavesNoResults ==
  lastCall.empty => searchResults = <<>>

\* ---- C26: when the conversation-id resolution returns an error,
\* sendMessage still inserts the durable message, with conversation id null,
\* and the send succeeds: the insert request is issued, a row it stores has
\* no conversation id, and the send fails only if the insert itself returns
\* no row. (The rpc of one of two users who send their first message to each
\* other concurrently ends in such an error; see C4.)
ConversationErrorNotFatal ==
  [][(send.pc = "persist" /\ send'.pc = "response" /\ send'.convError) =>
       /\ send'.inserts = send.inserts + 1
       /\ \A m \in dbMessages' \ dbMessages : m.conversation_id = Null
       /\ send'.error => send'.sentMessage = send.optimistic
       /\ ~send'.error => /\ send'.sentMessage \in dbMessages'
                          /\ send'.sentMessage.conversation_id = Null]_vars

SentWithoutConversation ==
  /\ send.pc = "effects"
  /\ send.convError /\ ~send.error
  /\ send.sentMessage \in dbMessages
  /\ send.sentMessage.conversation_id = Null
  /\ \E i \in 1..Len(messages) : messages[i] = send.sentMessage

\* ---- C27: when a send succeeds, replacing its placeholder changes no
\* other entry of the list: placeholders of other sends still in flight on
\* the same store instance keep their own text and status sending, for every
\* pair of values of the clock used to build the temporary ids.
ReplacementKeepsOtherEntries ==
  [][\A c \in SendCallers :
       (sendCalls[c].pc = "response" /\ ~sendCalls[c].error /\ sendCalls'[c].pc = "effects") =>
         /\ Len(messages') = Len(messages)
         /\ \A i \in 1..Len(messages) :
              messages[i] # sendCalls[c].optimistic => messages'[i] = messages[i]]_vars

====
